---- MODULE Spec2Model ----
(***************************************************************************)
(* A model of the in-memory UGC contribution stores of contribution.ts:    *)
(* ContributionSessionMemoryPersistence, ContributionMemoryPersistence,    *)
(* ContributionTargetRelationshipMemoryPersistence and the facade          *)
(* TypicalContributionInteraction.                                         *)
(*                                                                         *)
(* The three stores keep their data in plain JavaScript objects ({}) and   *)
(* one array.  A plain object is modelled as the sequence of its own       *)
(* properties in the order Object.entries reports them, and a property     *)
(* read falls back to Object.prototype as it does in JavaScript.           *)
(***************************************************************************)
EXTENDS Integers, Sequences, FiniteSets, TLC

VARIABLES
    sessions,       \* ContributionSessionMemoryPersistence.sessions
    contributions,  \* ContributionMemoryPersistence.contributions
    reactions,      \* ContributionMemoryPersistence.reactions
    relationships,  \* ContributionTargetRelationshipMemoryPersistence.relationships
    call,           \* the operation that ran last, with its arguments
    ret,            \* what that operation returned (or threw)
    issued,         \* history: sessions returned by createSession, not timed out since
    timedOut,       \* history: sessions passed to timeoutSession
    saved,          \* history: the value last passed to saveContribution, per id
    pushed,         \* history: reactions whose save completed, in save order
    related         \* history: relationships passed to saveRelationship, in order

vars == <<sessions, contributions, reactions, relationships, call, ret,
          issued, timedOut, saved, pushed, related>>

-----------------------------------------------------------------------------
(* JavaScript values *)

Undefined == [type |-> "undefined"]
Null == [type |-> "null"]
\* Object.prototype[k] for a key k every object inherits (a function: truthy,
\* no own enumerable properties, no push method)
ObjectPrototypeMember(k) == [type |-> "function", name |-> k]
Array(items) == [type |-> "array", items |-> items]
Throw(e) == [type |-> "throw", error |-> e]

Truthy(v) == v # Undefined /\ v # Null
IsAbsent(v) == v = Undefined \/ v = Null
IsThrow(v) == "error" \in DOMAIN v

\* keys every {} inherits from Object.prototype
ObjectPrototypeKeys == {"constructor"}
IsFunction(v) == v \in {ObjectPrototypeMember(k) : k \in ObjectPrototypeKeys}

\* {...v}: the own enumerable properties of v
Spread(v) == IF IsFunction(v) THEN <<>> ELSE v

-----------------------------------------------------------------------------
(* Plain objects used as dictionaries: Record<string, T> = {} *)

\* canonical array-index keys: Object.entries lists them first, ascending
IsArrayIndex(k) == k \in {"1", "2"}
IndexValue(k) == IF k = "1" THEN 1 ELSE 2

EmptyObject == <<>>
OwnKeys(o) == {o[i].key : i \in DOMAIN o}
HasOwn(o, k) == k \in OwnKeys(o)
IndexOfKey(o, k) == CHOOSE i \in DOMAIN o : o[i].key = k

\* o[k]
Get(o, k) ==
    IF HasOwn(o, k) THEN o[IndexOfKey(o, k)].value
    ELSE IF k \in ObjectPrototypeKeys THEN ObjectPrototypeMember(k)
    ELSE Undefined

\* a property order that is insertion order for every key
InsertAtEnd(o, k) == Len(o) + 1

\* where a new own key lands in property order
InsertAt(o, k) ==
    IF IsArrayIndex(k)
    THEN 1 + Cardinality({i \in DOMAIN o :
                 IsArrayIndex(o[i].key) /\ IndexValue(o[i].key) < IndexValue(k)})
    ELSE Len(o) + 1

\* o[k] = v
Set(o, k, v) ==
    IF HasOwn(o, k)
    THEN [o EXCEPT ![IndexOfKey(o, k)].value = v]
    ELSE LET p == InsertAt(o, k) IN
         SubSeq(o, 1, p - 1) \o <<[key |-> k, value |-> v]>> \o SubSeq(o, p, Len(o))

\* delete o[k]
Delete(o, k) ==
    IF HasOwn(o, k)
    THEN LET p == IndexOfKey(o, k) IN SubSeq(o, 1, p - 1) \o SubSeq(o, p + 1, Len(o))
    ELSE o

\* Object.entries(o)
Entries(o) == o

-----------------------------------------------------------------------------
(* Inputs: validated instances of the schema types *)

ContributionIDs == {"1", "2", "a", "constructor"}
Contents == {"m"}
Dates == {1, 2}

UserAgents == {[ipAddress |-> "127.0.0.1"]}
ContributionSessionAuths ==
    { [type |-> "apiTokenAuth", apiToken |-> "token123"],
      [type |-> "oAuthDelegatedAuth", oAuthSessionId |-> "session123"],
      [type |-> "emailAuth", email |-> "test@example.com"] }

\* the session every modelled contribution and reaction was made under
AuthorSession ==
    [id |-> "00000000aa",
     auth |-> [type |-> "emailAuth", email |-> "test@example.com"],
     userAgent |-> [ipAddress |-> "127.0.0.1"]]

\* contributionSchema: parentId is optional
Contributions ==
    [id : ContributionIDs, content : Contents, session : {AuthorSession},
     created_at : Dates]
    \cup
    [id : ContributionIDs, content : Contents, session : {AuthorSession},
     parentId : ContributionIDs, created_at : Dates]

\* options?: { includeReactions?: boolean }
Options == {Undefined, [includeReactions |-> FALSE], [includeReactions |-> TRUE]}
IncludeReactions(options) ==
    "includeReactions" \in DOMAIN options /\ options.includeReactions

-----------------------------------------------------------------------------
(* ContributionMemoryPersistence *)

\* the value saved under an id before a save, for the history kept in call
Previous(id) == IF id \in DOMAIN saved THEN saved[id] ELSE Undefined

\* a save that keeps the first value of an id (first-write-wins)
saveContributionKeepFirst(cs, contribution) ==
    IF HasOwn(cs, contribution.id) THEN cs
    ELSE Set(cs, contribution.id, contribution)

\* a save that adds a record without looking for the id (no upsert)
saveContributionAppend(cs, contribution) ==
    cs \o <<[key |-> contribution.id, value |-> contribution]>>

\* saveContribution: this.contributions[contribution.id] = contribution
saveContribution(cs, contribution) == Set(cs, contribution.id, contribution)

\* getContribution
getContribution(cs, rs, id, options) ==
    LET contribution == Get(cs, id) IN
    IF Truthy(contribution) /\ IncludeReactions(options)
    THEN [reactions |-> Get(rs, id)] @@ Spread(contribution)
    ELSE IF Truthy(contribution) THEN contribution ELSE Null

\* a child test that forgets to compare the parentId with the id looked for
IsChildOfAny(childContrib, find) == "parentId" \in DOMAIN childContrib

\* childContrib.parentId == find
IsChildOf(childContrib, find) ==
    "parentId" \in DOMAIN childContrib /\ childContrib.parentId = find

\* The call stack recursiveFetch may use before the engine throws
\* RangeError.  A chain of distinct stored contributions below the root is
\* at most Len(cs) deep, so only a parentId cycle exhausts it.
StackLimit(cs) == Len(cs) + 2

RangeError == Throw("RangeError")

RECURSIVE recursiveFetch(_, _, _, _, _)
RECURSIVE scanChildren(_, _, _, _, _, _)

\* for (const [childId, childContrib] of Object.entries(this.contributions))
\*   if (childContrib.parentId == find) recursiveFetch(childId, foundHC)
\* from entry i on; the children pushed, or the overflow that ended the scan
scanChildren(cs, rs, options, find, stack, i) ==
    IF i > Len(Entries(cs)) THEN [overflow |-> FALSE, pushed |-> <<>>]
    ELSE LET childId == Entries(cs)[i].key
             childContrib == Entries(cs)[i].value
         IN IF IsChildOf(childContrib, find)
            THEN LET child == recursiveFetch(cs, rs, options, childId, stack - 1) IN
                 IF IsThrow(child) THEN [overflow |-> TRUE, pushed |-> <<>>]
                 ELSE LET rest == scanChildren(cs, rs, options, find, stack, i + 1) IN
                      IF rest.overflow THEN rest
                      ELSE [overflow |-> FALSE,
                            pushed |-> (IF child = Null THEN <<>> ELSE <<child>>)
                                       \o rest.pushed]
            ELSE scanChildren(cs, rs, options, find, stack, i + 1)

recursiveFetch(cs, rs, options, find, stack) ==
    IF stack = 0 THEN RangeError
    ELSE LET found == Get(cs, find) IN
         IF Truthy(found)
         THEN LET foundHC ==
                      [reactions |-> IF IncludeReactions(options)
                                     THEN Get(rs, find) ELSE Undefined,
                       subContributions |-> <<>>] @@ Spread(found)
                  scan == scanChildren(cs, rs, options, find, stack, 1)
              IN IF scan.overflow THEN RangeError
                 ELSE [foundHC EXCEPT !.subContributions = scan.pushed]
         ELSE Null

\* getThread
getThread(cs, rs, rootContributionId, options) ==
    recursiveFetch(cs, rs, options, rootContributionId, StackLimit(cs))


\* contributionReactionSchema
ReactionIDs == {"r1", "r2"}
ContributionReactions ==
    [reactionId : ReactionIDs, contributionId : ContributionIDs, reaction : {"like"},
     session : {AuthorSession}, created_at : {1}]

\* reactions.push(r); a value that is no array has no push method
Push(target, r) ==
    IF IsFunction(target) THEN Throw("TypeError")
    ELSE Array(Append(target.items, r))

\* saveReaction, the loop from argument i on: the reaction store it leaves,
\* how many reactions were pushed, and whether a push threw
RECURSIVE saveReactionFrom(_, _, _)
saveReactionFrom(rs, reaction, i) ==
    IF i > Len(reaction) THEN [reactions |-> rs, done |-> i - 1, threw |-> FALSE]
    ELSE LET r == reaction[i]
             existing == Get(rs, r.contributionId)
             rs1 == IF ~Truthy(existing) THEN Set(rs, r.contributionId, Array(<<>>))
                    ELSE rs
             list == IF ~Truthy(existing) THEN Array(<<>>) ELSE existing
             after == Push(list, r)
         IN IF IsThrow(after) THEN [reactions |-> rs1, done |-> i - 1, threw |-> TRUE]
            ELSE saveReactionFrom(Set(rs1, r.contributionId, after), reaction, i + 1)

saveReaction(rs, reaction) == saveReactionFrom(rs, reaction, 1)

-----------------------------------------------------------------------------
(* ContributionTargetRelationshipMemoryPersistence *)

TargetIDs == {"t1", "t2"}
ContributionTargets == [targetID : TargetIDs]

\* a save that drops a relationship the store already holds
saveRelationshipOnce(rels, relationship) ==
    IF \E i \in DOMAIN rels : rels[i] = relationship THEN rels
    ELSE Append(rels, relationship)

\* this.relationships.push(relationship)
saveRelationship(rels, relationship) == Append(rels, relationship)

RECURSIVE FilterByTargetID(_, _)
\* this.relationships.filter((rel) => rel.target.targetID === targetID)
FilterByTargetID(rels, targetID) ==
    IF rels = <<>> THEN <<>>
    ELSE (IF Head(rels).target.targetID = targetID THEN <<Head(rels)>> ELSE <<>>)
         \o FilterByTargetID(Tail(rels), targetID)

RECURSIVE FilterByContributionID(_, _)
\* this.relationships.filter((rel) => rel.contribution.id === contributionID)
FilterByContributionID(rels, contributionID) ==
    IF rels = <<>> THEN <<>>
    ELSE (IF Head(rels).contribution.id = contributionID THEN <<Head(rels)>> ELSE <<>>)
         \o FilterByContributionID(Tail(rels), contributionID)

\* a lookup that filters on the other key of the relationship
getRelationshipsByTargetIDOnContribution(rels, targetID) ==
    [type |-> "array", items |-> FilterByContributionID(rels, targetID)]

getRelationshipsByTargetID(rels, targetID) ==
    Array(FilterByTargetID(rels, targetID))

getRelationshipsByContributionID(rels, contributionID) ==
    Array(FilterByContributionID(rels, contributionID))

-----------------------------------------------------------------------------
(* ContributionSessionMemoryPersistence *)

HexDigits == <<"0", "1", "2", "3", "4", "5", "6", "7",
               "8", "9", "a", "b", "c", "d", "e", "f">>

\* Number.prototype.toString(16) of a byte
ToString16(b) ==
    IF b < 16 THEN HexDigits[b + 1]
    ELSE HexDigits[(b \div 16) + 1] \o HexDigits[(b % 16) + 1]

\* ("0" + str).slice(-2)
PadSlice2(str) == LET t == "0" \o str IN SubSeq(t, Len(t) - 1, Len(t))

RECURSIVE HexOf(_, _)
HexOf(buf, i) ==
    IF i > Len(buf) THEN "" ELSE PadSlice2(ToString16(buf[i])) \o HexOf(buf, i + 1)

\* s % d of JavaScript: the remainder carries the sign of s
Remainder(s, d) == IF s >= 0 THEN s % d ELSE 0 - ((0 - s) % d)

\* new Uint8Array(s / 2): the length is s / 2 truncated towards zero
ToIndex(s) == IF s >= 0 THEN s \div 2 ELSE 0 - ((0 - s) \div 2)

\* the most bytes one crypto.getRandomValues call fills
MaxRandomBytes == 65536

\* what getRandomString(s) throws, "" when it returns
getRandomStringError(s) ==
    IF Remainder(s, 2) = 1 THEN "InvalidData"
    ELSE IF ToIndex(s) < 0 THEN "RangeError"
    ELSE IF ToIndex(s) > MaxRandomBytes THEN "QuotaExceededError"
    ELSE ""

\* getRandomString(s), with random the bytes crypto.getRandomValues writes
getRandomString(s, random) ==
    IF getRandomStringError(s) # "" THEN Throw(getRandomStringError(s))
    ELSE HexOf(SubSeq(random, 1, ToIndex(s)), 1)

SessionIDSize == 10

\* byte arrays crypto.getRandomValues may leave in a buffer of n bytes
SampleBytes == {10, 255}
RandomValues(n) == {[i \in 1..n |-> b] : b \in SampleBytes}

\* a createSession that hands out the same identifier every time
createSessionFixed(auth, userAgent, random) ==
    [id |-> "0000000000", auth |-> auth, userAgent |-> userAgent]

\* createSession: the session it returns
createSession(auth, userAgent, random) ==
    [id |-> getRandomString(SessionIDSize, random), auth |-> auth,
     userAgent |-> userAgent]

\* createSession: the session store it leaves
createSessionStore(ss, auth, userAgent, random) == ss

\* getSession: this.sessions[sessionId]
getSession(ss, sessionId) == Get(ss, sessionId)

\* a timeout that writes the session back instead of deleting it
timeoutSessionKeep(ss, session) == Set(ss, session.id, session)

\* timeoutSession: delete this.sessions[session.id]
timeoutSession(ss, session) == Delete(ss, session.id)

ContributionSessions ==
    {createSession(a, u, r) : a \in ContributionSessionAuths, u \in UserAgents,
                              r \in RandomValues(SessionIDSize \div 2)}
ContributionSessionIDs == {s.id : s \in ContributionSessions} \cup ObjectPrototypeKeys


-----------------------------------------------------------------------------
(* Bounds of the model *)

\* largest size getRandomString is asked for, in either direction
MaxSize == 6
\* reactions pushed in one behaviour
MaxReactions == 2
\* relationships saved in one behaviour
MaxRelationships == 3

\* the argument lists of a saveReaction call of at most n reactions
ReactionArgs(n) == UNION {[1..k -> ContributionReactions] : k \in 0..n}

\* contributions a relationship is saved with
RelationshipContributions ==
    {c \in Contributions : "parentId" \notin DOMAIN c /\ c.created_at = 1}
ContributionTargetRelationships ==
    [contribution : RelationshipContributions, target : ContributionTargets]

-----------------------------------------------------------------------------
(* State after construction *)

Init ==
    /\ sessions = EmptyObject
    /\ contributions = EmptyObject
    /\ reactions = EmptyObject
    /\ relationships = <<>>
    /\ call = [op |-> "new"]
    /\ ret = Undefined
    /\ issued = {}
    /\ timedOut = {}
    /\ saved = <<>>
    /\ pushed = <<>>
    /\ related = <<>>

sessionVars == <<sessions, issued, timedOut>>
contributionVars == <<contributions, reactions, saved, pushed>>
relationshipVars == <<relationships, related>>

-----------------------------------------------------------------------------
(* Operations of the session store *)

CreateSession(auth, userAgent, random) ==
    LET session == createSession(auth, userAgent, random) IN
    /\ sessions' = createSessionStore(sessions, auth, userAgent, random)
    /\ issued' = issued \cup {session}
    /\ UNCHANGED timedOut
    /\ call' = [op |-> "createSession", auth |-> auth, userAgent |-> userAgent]
    /\ ret' = session
    /\ UNCHANGED <<contributionVars, relationshipVars>>

\* a lookup that leaves an entry for the id it was asked for
GetSessionTouch(sessionId) ==
    /\ call' = [op |-> "getSession", sessionId |-> sessionId]
    /\ ret' = getSession(sessions, sessionId)
    /\ sessions' = Set(sessions, sessionId, Null)
    /\ UNCHANGED <<issued, timedOut, contributionVars, relationshipVars>>

\* a string a call returned
String(value) == [type |-> "string", value |-> value]

GetRandomString(s, random) ==
    /\ call' = [op |-> "getRandomString", s |-> s]
    /\ ret' = IF getRandomStringError(s) # "" THEN Throw(getRandomStringError(s))
              ELSE String(getRandomString(s, random))
    /\ UNCHANGED <<sessionVars, contributionVars, relationshipVars>>

GetSession(sessionId) ==
    /\ call' = [op |-> "getSession", sessionId |-> sessionId]
    /\ ret' = getSession(sessions, sessionId)
    /\ UNCHANGED <<sessionVars, contributionVars, relationshipVars>>

TimeoutSession(session) ==
    /\ sessions' = timeoutSession(sessions, session)
    /\ issued' = issued \ {session}
    /\ timedOut' = timedOut \cup {session}
    /\ call' = [op |-> "timeoutSession", session |-> session,
                before |-> sessions, again |-> session \in timedOut]
    /\ ret' = session
    /\ UNCHANGED <<contributionVars, relationshipVars>>

-----------------------------------------------------------------------------
(* Operations of the contribution store *)

\* a save that also rewrites the contribution held by the relationships of
\* the same contribution id
SaveContributionSync(contribution) ==
    /\ contributions' = saveContribution(contributions, contribution)
    /\ saved' = (contribution.id :> contribution) @@ saved
    /\ relationships' =
          [i \in DOMAIN relationships |->
              IF relationships[i].contribution.id = contribution.id
              THEN [relationships[i] EXCEPT !.contribution = contribution]
              ELSE relationships[i]]
    /\ call' = [op |-> "saveContribution", contribution |-> contribution]
    /\ ret' = contribution
    /\ UNCHANGED <<sessionVars, reactions, pushed, related>>

SaveContribution(contribution) ==
    /\ contributions' = saveContribution(contributions, contribution)
    /\ saved' = (contribution.id :> contribution) @@ saved
    /\ call' = [op |-> "saveContribution", contribution |-> contribution]
    /\ ret' = contribution
    /\ UNCHANGED <<sessionVars, reactions, pushed, relationshipVars>>

SaveReactionAs(name, reaction) ==
    LET run == saveReaction(reactions, reaction) IN
    /\ reactions' = run.reactions
    /\ pushed' = pushed \o SubSeq(reaction, 1, run.done)
    /\ call' = [op |-> name, reaction |-> reaction]
    /\ ret' = IF run.threw THEN Throw("TypeError") ELSE Array(reaction)
    /\ UNCHANGED <<sessionVars, contributions, saved, relationshipVars>>

SaveReaction(reaction) == SaveReactionAs("saveReaction", reaction)

GetContribution(id, options) ==
    /\ call' = [op |-> "getContribution", id |-> id, options |-> options]
    /\ ret' = getContribution(contributions, reactions, id, options)
    /\ UNCHANGED <<sessionVars, contributionVars, relationshipVars>>

GetThread(rootContributionId, options) ==
    /\ call' = [op |-> "getThread", id |-> rootContributionId, options |-> options]
    /\ ret' = getThread(contributions, reactions, rootContributionId, options)
    /\ UNCHANGED <<sessionVars, contributionVars, relationshipVars>>

-----------------------------------------------------------------------------
(* Operations of the relationship store *)

SaveRelationship(relationship) ==
    /\ Len(relationships) < MaxRelationships
    /\ relationships' = saveRelationship(relationships, relationship)
    /\ related' = Append(related, relationship)
    /\ call' = [op |-> "saveRelationship", relationship |-> relationship]
    /\ ret' = relationship
    /\ UNCHANGED <<sessionVars, contributionVars>>

GetRelationshipsByTargetID(targetID) ==
    /\ call' = [op |-> "getRelationshipsByTargetID", id |-> targetID]
    /\ ret' = getRelationshipsByTargetID(relationships, targetID)
    /\ UNCHANGED <<sessionVars, contributionVars, relationshipVars>>

GetRelationshipsByContributionID(contributionID) ==
    /\ call' = [op |-> "getRelationshipsByContributionID", id |-> contributionID]
    /\ ret' = getRelationshipsByContributionID(relationships, contributionID)
    /\ UNCHANGED <<sessionVars, contributionVars, relationshipVars>>

-----------------------------------------------------------------------------
(* Operations of TypicalContributionInteraction *)

\* "contribution" in contribution
IsRelationship(input) == "contribution" \in DOMAIN input

\* a postContribution that also saves the contribution of a relationship
PostContributionBoth(input) ==
    /\ IF IsRelationship(input)
       THEN /\ Len(relationships) < MaxRelationships
            /\ relationships' = saveRelationship(relationships, input)
            /\ related' = Append(related, input)
            /\ contributions' = saveContribution(contributions, input.contribution)
            /\ saved' = (input.contribution.id :> input.contribution) @@ saved
       ELSE /\ contributions' = saveContribution(contributions, input)
            /\ saved' = (input.id :> input) @@ saved
            /\ UNCHANGED relationshipVars
    /\ call' = [op |-> "postContribution", input |-> input,
                previous |-> IF IsRelationship(input) THEN Undefined
                             ELSE Previous(input.id)]
    /\ ret' = input
    /\ UNCHANGED <<sessionVars, reactions, pushed>>

\* a postContribution that starts the reaction list of a contribution anew
PostContributionResetReactions(input) ==
    /\ IF IsRelationship(input)
       THEN /\ Len(relationships) < MaxRelationships
            /\ relationships' = saveRelationship(relationships, input)
            /\ related' = Append(related, input)
            /\ UNCHANGED <<contributions, saved, reactions>>
       ELSE /\ contributions' = saveContribution(contributions, input)
            /\ saved' = (input.id :> input) @@ saved
            /\ reactions' = Delete(reactions, input.id)
            /\ UNCHANGED relationshipVars
    /\ call' = [op |-> "postContribution", input |-> input,
                previous |-> IF IsRelationship(input) THEN Undefined
                             ELSE Previous(input.id)]
    /\ ret' = input
    /\ UNCHANGED <<sessionVars, pushed>>

PostContribution(input) ==
    /\ IF IsRelationship(input)
       THEN /\ Len(relationships) < MaxRelationships
            /\ relationships' = saveRelationship(relationships, input)
            /\ related' = Append(related, input)
            /\ UNCHANGED <<contributions, saved>>
       ELSE /\ contributions' = saveContribution(contributions, input)
            /\ saved' = (input.id :> input) @@ saved
            /\ UNCHANGED relationshipVars
    /\ call' = [op |-> "postContribution", input |-> input,
                previous |-> IF IsRelationship(input) THEN Undefined
                             ELSE Previous(input.id)]
    /\ ret' = input
    /\ UNCHANGED <<sessionVars, reactions, pushed>>

PostReaction(reaction) == SaveReactionAs("postReaction", reaction)

\* a delegation that drops the options on the way to the store
interactionGetThreadNoOptions(cs, rs, rootContributionId, options) ==
    getThread(cs, rs, rootContributionId, Undefined)

\* return this.cps.getContribution(id, options)
interactionGetContribution(cs, rs, id, options) ==
    getContribution(cs, rs, id, options)

\* return this.cps.getThread(rootContributionId, options)
interactionGetThread(cs, rs, rootContributionId, options) ==
    getThread(cs, rs, rootContributionId, options)

\* a getContribution that leaves an empty reaction list for the id it read
InteractionGetContributionTouch(id, options) ==
    /\ call' = [op |-> "interaction.getContribution", id |-> id,
                options |-> options]
    /\ ret' = interactionGetContribution(contributions, reactions, id, options)
    /\ reactions' = IF Truthy(Get(reactions, id)) THEN reactions
                    ELSE Set(reactions, id, Array(<<>>))
    /\ UNCHANGED <<sessionVars, contributions, saved, pushed, relationshipVars>>

InteractionGetContribution(id, options) ==
    /\ call' = [op |-> "interaction.getContribution", id |-> id,
                options |-> options]
    /\ ret' = interactionGetContribution(contributions, reactions, id, options)
    /\ UNCHANGED <<sessionVars, contributionVars, relationshipVars>>

\* a getThread during which the save of a reply to the root takes effect
\* between the root lookup and the scan for its children
InteractionGetThreadTorn(rootContributionId, options) ==
    \E c \in {r \in Contributions : /\ "parentId" \in DOMAIN r
                                     /\ r.parentId = rootContributionId
                                     /\ r.created_at = 1} :
        LET found == Get(contributions, rootContributionId)
            after == saveContribution(contributions, c)
            scan == scanChildren(after, reactions, options, rootContributionId,
                                 StackLimit(after), 1)
        IN /\ contributions' = after
           /\ saved' = (c.id :> c) @@ saved
           /\ call' = [op |-> "interaction.getThread", id |-> rootContributionId,
                       options |-> options]
           /\ ret' = IF ~Truthy(found) THEN Null
                     ELSE IF scan.overflow THEN RangeError
                     ELSE [reactions |-> IF IncludeReactions(options)
                                         THEN Get(reactions, rootContributionId)
                                         ELSE Undefined,
                           subContributions |-> scan.pushed] @@ Spread(found)
           /\ UNCHANGED <<sessionVars, reactions, pushed, relationshipVars>>

InteractionGetThread(rootContributionId, options) ==
    /\ call' = [op |-> "interaction.getThread", id |-> rootContributionId,
                options |-> options]
    /\ ret' = interactionGetThread(contributions, reactions, rootContributionId,
                                   options)
    /\ UNCHANGED <<sessionVars, contributionVars, relationshipVars>>


\* "  ".repeat(level)
RECURSIVE Repeat(_, _)
Repeat(str, n) == IF n = 0 THEN "" ELSE str \o Repeat(str, n - 1)

\* `${contribution.id}`: a missing id prints as undefined
IdText(contribution) ==
    IF "id" \in DOMAIN contribution THEN contribution.id ELSE "undefined"

\* if (contribution.content): a missing or empty content is skipped
HasContent(contribution) ==
    "content" \in DOMAIN contribution /\ contribution.content # ""

RECURSIVE renderSingle(_, _)
RECURSIVE renderSubs(_, _, _)

\* for (const sub of contribution.subContributions)
\*   renderedText += renderSingle(sub, level + 1), from sub i on
renderSubs(subs, level, i) ==
    IF i > Len(subs) THEN ""
    ELSE renderSingle(subs[i], level + 1) \o renderSubs(subs, level, i + 1)

renderSingle(contribution, level) ==
    LET levelText == IF level # 0 THEN Repeat("  ", level) ELSE ""
        idLine == levelText \o "Contribution ID: " \o IdText(contribution) \o "\n"
        contentLine ==
            IF HasContent(contribution)
            THEN levelText \o "Content: " \o contribution.content ELSE ""
        subLines ==
            IF Len(contribution.subContributions) # 0
            THEN "\n" \o levelText \o IdText(contribution) \o " Subcontributions:\n"
                 \o renderSubs(contribution.subContributions, level, 1)
            ELSE ""
    IN idLine \o contentLine \o subLines

\* renderThread
renderThread(contribution) == renderSingle(contribution, 0)

\* renderThread(thread) of the thread getThread has just returned
RenderThread ==
    /\ call.op = "getThread"
    /\ "subContributions" \in DOMAIN ret
    /\ call' = [op |-> "renderThread", contribution |-> ret]
    /\ ret' = renderThread(ret)
    /\ UNCHANGED <<sessionVars, contributionVars, relationshipVars>>

-----------------------------------------------------------------------------
(* Specifications.  The stores share no state, so each is checked with the *)
(* operations that read or write it.                                       *)

\* contributions that differ in id and parentId only
ThreadContributions == {c \in Contributions : c.created_at = 1}
\* contributions that differ in id and timestamp, replies all to "a"
StoreContributions ==
    {c \in Contributions : "parentId" \in DOMAIN c => c.parentId = "a"}
\* root contributions that differ in id only
ReactedContributions ==
    {c \in Contributions : "parentId" \notin DOMAIN c /\ c.created_at = 1}

NextSession ==
    \/ \E auth \in ContributionSessionAuths, userAgent \in UserAgents,
          random \in RandomValues(SessionIDSize \div 2) :
            CreateSession(auth, userAgent, random)
    \/ \E sessionId \in ContributionSessionIDs : GetSession(sessionId)
    \/ \E session \in ContributionSessions : TimeoutSession(session)

SpecSession == Init /\ [][NextSession]_vars

\* sizes asked for: small ones of either sign and parity, and one beyond
\* what the random source fills in one call
Sizes == ((0 - MaxSize)..MaxSize) \cup {2 * MaxRandomBytes + 2}
\* the bytes crypto.getRandomValues may write for size s
RandomValuesFor(s) ==
    IF getRandomStringError(s) # "" THEN {<<>>}
    ELSE [1..ToIndex(s) -> SampleBytes]

NextRandom ==
    \/ \E s \in Sizes : \E random \in RandomValuesFor(s) : GetRandomString(s, random)
    \/ \E auth \in ContributionSessionAuths, userAgent \in UserAgents,
          random \in RandomValues(SessionIDSize \div 2) :
            CreateSession(auth, userAgent, random)

SpecRandom == Init /\ [][NextRandom]_vars

\* getThread is called without options and with reactions asked for
ThreadOptions == {Undefined, [includeReactions |-> TRUE]}

NextThread ==
    \/ \E c \in ThreadContributions : SaveContribution(c)
    \/ \E id \in ContributionIDs, options \in ThreadOptions : GetThread(id, options)

SpecThread == Init /\ [][NextThread]_vars

NextStore ==
    \/ \E c \in StoreContributions : SaveContribution(c)
    \/ \E c \in StoreContributions : PostContribution(c)
    \/ \E id \in ContributionIDs, options \in Options : GetContribution(id, options)
    \/ \E id \in ContributionIDs : GetThread(id, Undefined)
    \/ \E sessionId \in ContributionSessionIDs : GetSession(sessionId)

SpecStore == Init /\ [][NextStore]_vars

NextReact ==
    \/ \E c \in ReactedContributions : SaveContribution(c)
    \/ \E reaction \in ReactionArgs(MaxReactions - Len(pushed)) : SaveReaction(reaction)
    \/ \E reaction \in ReactionArgs(MaxReactions - Len(pushed)) : PostReaction(reaction)
    \/ \E id \in ContributionIDs, options \in Options : GetContribution(id, options)

SpecReact == Init /\ [][NextReact]_vars

NextRel ==
    \/ \E rel \in ContributionTargetRelationships : SaveRelationship(rel)
    \/ \E rel \in ContributionTargetRelationships : PostContribution(rel)
    \/ \E targetID \in TargetIDs : GetRelationshipsByTargetID(targetID)
    \/ \E id \in ContributionIDs : GetRelationshipsByContributionID(id)

SpecRel == Init /\ [][NextRel]_vars

\* what a client of TypicalContributionInteraction posts and reads: a
\* two-level thread, relationships of its root, reactions to its nodes
InteractionIDs == {"1", "a"}
InteractionContributions ==
    {c \in ThreadContributions :
        c.id \in InteractionIDs /\ ("parentId" \in DOMAIN c => c.parentId = "1")}
EmbeddedRelationships ==
    {rel \in ContributionTargetRelationships : rel.contribution.id = "1"}
InteractionRelationships ==
    {rel \in EmbeddedRelationships : rel.target.targetID = "t1"}
InteractionReactions ==
    {r \in ContributionReactions :
        r.reactionId = "r1" /\ r.contributionId \in InteractionIDs \cup ObjectPrototypeKeys}
InteractionReactionArgs(n) ==
    UNION {[1..k -> InteractionReactions] : k \in 0..n}

NextInteraction ==
    \/ \E input \in InteractionContributions \cup InteractionRelationships :
          PostContribution(input)
    \/ \E reaction \in InteractionReactionArgs(MaxReactions - Len(pushed)) :
          PostReaction(reaction)
    \/ \E id \in InteractionIDs, options \in Options :
          InteractionGetContribution(id, options)
    \/ \E id \in InteractionIDs, options \in ThreadOptions :
          InteractionGetThread(id, options)

SpecInteraction == Init /\ [][NextInteraction]_vars

\* contributions saved under the ids that saved relationships embed
NextEmbedded ==
    \/ \E rel \in EmbeddedRelationships : SaveRelationship(rel)
    \/ \E c \in InteractionContributions : SaveContribution(c)
    \/ \E targetID \in TargetIDs : GetRelationshipsByTargetID(targetID)
    \/ \E id \in InteractionIDs : GetRelationshipsByContributionID(id)
    \/ \E id \in InteractionIDs : GetContribution(id, Undefined)

SpecEmbedded == Init /\ [][NextEmbedded]_vars

\* threads of up to three contributions, two levels deep, with siblings
RenderIDs == {"1", "2", "a"}
RenderContributions ==
    {c \in ThreadContributions :
        /\ c.id \in RenderIDs
        /\ "parentId" \in DOMAIN c => c.parentId \in {"1", "2"}}

NextRender ==
    \/ \E c \in RenderContributions : SaveContribution(c)
    \/ \E id \in RenderIDs : GetThread(id, Undefined)
    \/ RenderThread

SpecRender == Init /\ [][NextRender]_vars

Next ==
    NextSession \/ NextThread \/ NextStore \/ NextReact \/ NextRel
       \/ NextInteraction \/ NextEmbedded \/ NextRender \/ NextRandom

Spec == Init /\ [][Next]_vars


-----------------------------------------------------------------------------
(* The parentId graph of the saved contributions, from the history *)

Range(seq) == {seq[i] : i \in DOMAIN seq}
SavedIds == DOMAIN saved

\* the saved contributions whose parentId is in S
ChildrenIn(m, S) ==
    {k \in DOMAIN m : "parentId" \in DOMAIN m[k] /\ m[k].parentId \in S}

RECURSIVE Closure(_, _)
Closure(m, S) ==
    LET next == S \cup ChildrenIn(m, S) IN
    IF next = S THEN S ELSE Closure(m, next)

\* every contribution that reaches r through parentId links
Descendants(m, r) == Closure(m, ChildrenIn(m, {r}))

\* no contribution is its own ancestor
Acyclic(m) == \A k \in DOMAIN m : k \notin Descendants(m, k)

\* saved contributions whose parentId names no saved contribution
Orphans(m) ==
    {k \in DOMAIN m : "parentId" \in DOMAIN m[k] /\ m[k].parentId \notin DOMAIN m}

(* Trees returned by getThread *)

IsTree(t) == "subContributions" \in DOMAIN t

RECURSIVE NodeIds(_)
RECURSIVE NodeIdsOfAll(_)
\* the ids of the nodes of a tree, in depth-first pre-order
NodeIds(t) ==
    (IF "id" \in DOMAIN t THEN <<t.id>> ELSE <<>>) \o NodeIdsOfAll(t.subContributions)
NodeIdsOfAll(ts) ==
    IF ts = <<>> THEN <<>> ELSE NodeIds(Head(ts)) \o NodeIdsOfAll(Tail(ts))

RECURSIVE WellNested(_, _)
\* every node carries the saved contribution of its id, and every
\* sub-contribution of a node names that node as its parent
WellNested(t, m) ==
    /\ t.id \in DOMAIN m
    /\ [f \in DOMAIN m[t.id] |-> t[f]] = m[t.id]
    /\ \A i \in DOMAIN t.subContributions :
          LET sub == t.subContributions[i] IN
          /\ "parentId" \in DOMAIN sub
          /\ sub.parentId = t.id
          /\ WellNested(sub, m)

\* r heads a chain r -> A -> B -> C
IsChain(m, r) ==
    /\ Cardinality(Descendants(m, r)) = 3
    /\ \A k \in {r} \cup Descendants(m, r) : Cardinality(ChildrenIn(m, {k})) <= 1

\* one sub-contribution at each of three levels, none below
ChainShape(t) ==
    /\ Len(t.subContributions) = 1
    /\ Len(t.subContributions[1].subContributions) = 1
    /\ Len(t.subContributions[1].subContributions[1].subContributions) = 1
    /\ t.subContributions[1].subContributions[1].subContributions[1].subContributions
          = <<>>

\* C1: getThread(r) of a stored id r, in a store whose parentId graph is
\* acyclic, returns a tree rooted at r that holds every descendant of r
\* exactly once and nothing else, each node directly under the node its
\* parentId names; of a chain r -> A -> B -> C it returns one sub-contribution
\* per level, C at depth 3.
C1_ThreadComplete ==
    (call.op = "getThread" /\ call.id \in SavedIds /\ Acyclic(saved)) =>
        /\ IsTree(ret)
        /\ ret.id = call.id
        /\ Len(NodeIds(ret)) = Cardinality(Range(NodeIds(ret)))
        /\ Range(NodeIds(ret)) = {call.id} \cup Descendants(saved, call.id)
        /\ WellNested(ret, saved)
        /\ IsChain(saved, call.id) => ChainShape(ret)

\* a chain of three replies below the root has been fetched, and the tree
\* nests them three deep
C1_Witness ==
    /\ call.op = "getThread"
    /\ call.id \in SavedIds
    /\ Acyclic(saved)
    /\ IsChain(saved, call.id)
    /\ IsTree(ret)
    /\ Len(NodeIds(ret)) = 4
    /\ ret.subContributions[1].subContributions[1].subContributions[1].id
          \in Descendants(saved, call.id)

\* C5: a stored contribution whose parentId names an id that is not stored
\* is in no tree getThread returns for another id, and getThread of the
\* missing would-be parent returns absent.
C5_OrphanOmission ==
    call.op = "getThread" =>
        /\ (\E o \in Orphans(saved) : saved[o].parentId = call.id) => ret = Null
        /\ IsTree(ret) =>
              \A o \in Orphans(saved) \ {call.id} : o \notin Range(NodeIds(ret))


-----------------------------------------------------------------------------
(* Session store *)

\* C2: a session createSession returned is what getSession returns for its
\* id until timeoutSession is called for it.
C2_SessionPersisted == \A s \in issued : getSession(sessions, s.id) = s

-----------------------------------------------------------------------------
(* Contribution store *)

\* C3: getContribution(c.id) returns a value equal to the contribution c
\* last saved under that id, whatever was saved under other ids since.
C3_RoundTrip ==
    /\ \A id \in SavedIds :
          getContribution(contributions, reactions, id, Undefined) = saved[id]
    /\ (call.op = "getContribution" /\ ~IncludeReactions(call.options)
          /\ call.id \in SavedIds) => ret = saved[call.id]

\* a contribution has been read back after contributions with other ids
\* were saved
C3_Witness ==
    /\ call.op = "getContribution"
    /\ ~IncludeReactions(call.options)
    /\ call.id \in SavedIds
    /\ Cardinality(SavedIds) >= 3
    /\ ret = saved[call.id]

\* C4: the store holds exactly one record per saved id, the one saved last,
\* and saving a contribution a second time changes nothing.
C4_Upsert ==
    /\ OwnKeys(contributions) = SavedIds
    /\ Len(Entries(contributions)) = Cardinality(SavedIds)
    /\ \A i \in DOMAIN Entries(contributions) :
          Entries(contributions)[i].value = saved[Entries(contributions)[i].key]
    /\ \A c \in StoreContributions :
          saveContribution(saveContribution(contributions, c), c)
             = saveContribution(contributions, c)

\* an id has been saved again with another value, and the store holds the
\* new value only
C4_Witness ==
    /\ call.op = "postContribution"
    /\ call.previous # Undefined
    /\ call.previous # call.input
    /\ Get(contributions, call.input.id) = call.input
    /\ Len(Entries(contributions)) = Cardinality(SavedIds)

\* C8: getContribution and getThread of an id that is not stored, and
\* getSession of an id that is not present, return absent and raise nothing.
C8_NotFoundIsAbsent ==
    /\ (call.op \in {"getContribution", "getThread"} /\ call.id \notin SavedIds) =>
          ret = Null
    /\ (call.op = "getSession" /\ ~HasOwn(sessions, call.sessionId)) =>
          IsAbsent(ret)

(* Reactions *)

RECURSIVE PushedFor(_, _)
\* the reactions of the history that name contribution id, in save order
PushedFor(log, id) ==
    IF log = <<>> THEN <<>>
    ELSE (IF Head(log).contributionId = id THEN <<Head(log)>> ELSE <<>>)
         \o PushedFor(Tail(log), id)

\* the reaction list a read of id is to carry: absent when none was saved
ExpectedReactions(id) ==
    IF PushedFor(pushed, id) = <<>> THEN Undefined ELSE Array(PushedFor(pushed, id))

\* C6: getContribution(X, {includeReactions: true}) of a stored X returns X
\* with exactly the reactions saved for X, in save order; without the
\* option it returns X with no reactions field.
C6_ReactionAttachment ==
    (call.op = "getContribution" /\ call.id \in SavedIds) =>
        IF IncludeReactions(call.options)
        THEN ret = [reactions |-> ExpectedReactions(call.id)] @@ saved[call.id]
        ELSE ret = saved[call.id] /\ "reactions" \notin DOMAIN ret

\* C7: saveReaction never fails for a contribution that is not stored; the
\* reaction is retained, invisible while the contribution is absent, and
\* read back with the contribution once that is saved, whichever came first.
C7_ReactionBeforeContribution ==
    /\ call.op \in {"saveReaction", "postReaction"} =>
          /\ ~IsThrow(ret)
          /\ \A i \in DOMAIN call.reaction : call.reaction[i] \in Range(pushed)
    /\ \A id \in ContributionIDs :
          PushedFor(pushed, id) # <<>> =>
              Get(reactions, id) = Array(PushedFor(pushed, id))
    /\ (call.op = "getContribution" /\ call.id \notin SavedIds
          /\ PushedFor(pushed, call.id) # <<>>) => ret = Null
    /\ \A id \in SavedIds :
          PushedFor(pushed, id) # <<>> =>
              getContribution(contributions, reactions, id,
                              [includeReactions |-> TRUE])
                 = [reactions |-> Array(PushedFor(pushed, id))] @@ saved[id]

-----------------------------------------------------------------------------
(* Relationship store *)

Count(seq, v) == Cardinality({i \in DOMAIN seq : seq[i] = v})

\* C10: getRelationshipsByTargetID(t) returns exactly the saved
\* relationships whose target is t, getRelationshipsByContributionID(c)
\* exactly those whose contribution has id c, each once per save, as a
\* sequence that is empty when none match; after one save into an empty
\* store both lookups return that one relationship.
C10_ExactFilters ==
    /\ call.op = "getRelationshipsByTargetID" =>
          /\ ret.type = "array"
          /\ \A rel \in Range(related) \cup Range(ret.items) :
                Count(ret.items, rel) =
                   IF rel.target.targetID = call.id THEN Count(related, rel) ELSE 0
    /\ call.op = "getRelationshipsByContributionID" =>
          /\ ret.type = "array"
          /\ \A rel \in Range(related) \cup Range(ret.items) :
                Count(ret.items, rel) =
                   IF rel.contribution.id = call.id THEN Count(related, rel) ELSE 0
    /\ Len(related) = 1 =>
          /\ getRelationshipsByTargetID(relationships, related[1].target.targetID)
                = Array(<<related[1]>>)
          /\ getRelationshipsByContributionID(relationships, related[1].contribution.id)
                = Array(<<related[1]>>)

\* the same relationship was saved twice, another once, and the lookup by
\* target returned the two
C10_Witness ==
    /\ call.op = "getRelationshipsByTargetID"
    /\ Len(related) = 3
    /\ related[1] = related[3]
    /\ related[1].target.targetID = call.id
    /\ related[2].target.targetID # call.id
    /\ ret = Array(<<related[1], related[3]>>)

\* the relationships a state holds are the first ones of the next state
IsPrefix(s, t) == Len(s) <= Len(t) /\ SubSeq(t, 1, Len(s)) = s

\* a step that saves a relationship, by either entry point
SavesRelationship ==
    \/ call'.op = "saveRelationship"
    \/ call'.op = "postContribution" /\ IsRelationship(call'.input)
SavedRelationship ==
    IF call'.op = "saveRelationship" THEN call'.relationship ELSE call'.input

\* C11: every saveRelationship call adds exactly one record at the end of
\* the store; a pair saved k times is returned k times by the lookup by
\* target and by the lookup by contribution id; no operation removes,
\* reorders or changes a saved relationship: the store of a state is a
\* prefix of the store of the next state.
C11_AppendOnly ==
    /\ [](\A rel \in Range(related) :
            /\ Count(getRelationshipsByTargetID(relationships,
                         rel.target.targetID).items, rel) = Count(related, rel)
            /\ Count(getRelationshipsByContributionID(relationships,
                         rel.contribution.id).items, rel) = Count(related, rel))
    /\ [][/\ IsPrefix(relationships, relationships')
          /\ SavesRelationship =>
                relationships' = Append(relationships, SavedRelationship)
          /\ ~SavesRelationship => relationships' = relationships]_vars

\* one pair has been saved three times and both lookups return it three
\* times
C11_Witness ==
    /\ Len(related) = 3
    /\ related[1] = related[2]
    /\ related[2] = related[3]
    /\ relationships = related
    /\ Count(getRelationshipsByTargetID(relationships,
                 related[1].target.targetID).items, related[1]) = 3
    /\ Count(getRelationshipsByContributionID(relationships,
                 related[1].contribution.id).items, related[1]) = 3

-----------------------------------------------------------------------------
(* TypicalContributionInteraction *)

\* after is before with c stored under c.id and nothing else touched
IsUpsertOf(before, after, c) ==
    /\ OwnKeys(after) = OwnKeys(before) \cup {c.id}
    /\ Len(Entries(after)) = Cardinality(OwnKeys(after))
    /\ Get(after, c.id) = c
    /\ \A k \in OwnKeys(before) \ {c.id} : Get(after, k) = Get(before, k)

\* C12: postContribution of an input that carries a contribution and a
\* target appends exactly that relationship and leaves the contribution and
\* reaction stores unchanged; of any other input it upserts the contribution
\* and leaves the relationship store unchanged; either way the session store
\* is unchanged and the input is returned.
C12_PostDispatch ==
    [][call'.op = "postContribution" =>
          /\ ret' = call'.input
          /\ sessions' = sessions
          /\ IF {"contribution", "target"} \subseteq DOMAIN call'.input
             THEN /\ relationships' = Append(relationships, call'.input)
                  /\ contributions' = contributions
                  /\ reactions' = reactions
             ELSE /\ IsUpsertOf(contributions, contributions', call'.input)
                  /\ relationships' = relationships]_vars

\* a relationship of contribution "1" has been posted after another one,
\* with a contribution and a reaction in the store, and "1" is not stored
C12_Witness ==
    /\ call.op = "postContribution"
    /\ IsRelationship(call.input)
    /\ ret = call.input
    /\ Len(relationships) >= 2
    /\ relationships[Len(relationships)] = call.input
    /\ OwnKeys(contributions) = {"a"}
    /\ pushed # <<>>

\* C13: postReaction, getContribution and getThread of the interaction
\* return what saveReaction, getContribution and getThread of the
\* contribution store return in the same state, and leave the contribution
\* store as those leave it; a read reflects every write made before it.
C13_PureDelegation ==
    [][/\ call'.op = "postReaction" =>
             LET run == saveReaction(reactions, call'.reaction) IN
             /\ reactions' = run.reactions
             /\ contributions' = contributions
             /\ ret' = IF run.threw THEN Throw("TypeError")
                       ELSE Array(call'.reaction)
       /\ call'.op = "interaction.getContribution" =>
             /\ ret' = getContribution(contributions, reactions, call'.id,
                                       call'.options)
             /\ <<contributions', reactions'>> = <<contributions, reactions>>
       /\ call'.op = "interaction.getThread" =>
             /\ ret' = getThread(contributions, reactions, call'.id,
                                 call'.options)
             /\ <<contributions', reactions'>> = <<contributions, reactions>>]_vars

\* the interaction has returned a two-level thread with the reactions that
\* were posted for its root
C13_Witness ==
    /\ call.op = "interaction.getThread"
    /\ IncludeReactions(call.options)
    /\ IsTree(ret)
    /\ Len(ret.subContributions) = 1
    /\ ret.reactions = Array(PushedFor(pushed, call.id))
    /\ Len(PushedFor(pushed, call.id)) = 2
    /\ ret = getThread(contributions, reactions, call.id, call.options)

-----------------------------------------------------------------------------
(* Threads and reactions *)

RECURSIVE ReactionsAttached(_, _)
\* every node of tree t carries the reactions saved for its own id when
\* include is set, and none otherwise
ReactionsAttached(t, include) ==
    /\ t.reactions = (IF include THEN ExpectedReactions(t.id) ELSE Undefined)
    /\ \A i \in DOMAIN t.subContributions :
          ReactionsAttached(t.subContributions[i], include)

\* C14: getThread with includeReactions attaches to the root and to every
\* descendant of the tree exactly the reactions saved for that node's id,
\* absent when none were saved; without the option no node carries
\* reactions.
C14_ThreadReactions ==
    (call.op = "getThread" /\ call.id \in SavedIds /\ IsTree(ret)) =>
        ReactionsAttached(ret, IncludeReactions(call.options))

-----------------------------------------------------------------------------
(* Cycles of parentId and timestamps *)

\* the stored contributions by id
Stored == [k \in OwnKeys(contributions) |-> Get(contributions, k)]

\* C15: getThread returns a result in every reachable store, also when a
\* contribution's parentId is its own id or the parentId links form a
\* cycle: its recursion ends by itself.
C15_ThreadTerminates == call.op = "getThread" => ret # RangeError

\* C16: in every reachable store no contribution is its own ancestor
\* through parentId links.
C16_ParentsAcyclic == Acyclic(Stored)

\* C17: once an id is saved, the created_at that getContribution returns
\* for it is the same in every later state.
C17_TimestampFixed ==
    [][\A id \in SavedIds :
          getContribution(contributions', reactions', id, Undefined).created_at
             = getContribution(contributions, reactions, id, Undefined).created_at]_vars

-----------------------------------------------------------------------------
(* Concurrent invocation.  No method of the stores awaits before it reads *)
(* or writes, so each call runs to completion once invoked; concurrently   *)
(* invoked calls take effect one after the other, in any order.            *)

\* the reaction list stored for an id, empty when the id has no list
ReactionList(id) ==
    LET list == Get(reactions, id) IN
    IF list.type = "array" THEN list.items ELSE <<>>

\* C18: whatever the order in which the saves take effect, once the calls
\* have completed every reaction passed to saveReaction is in the list of
\* its contributionId once per save, every saveRelationship call has
\* contributed exactly one record, and every contribution id holds a value
\* that was saved for it.
C18_NoLostUpdate ==
    /\ call.op \in {"saveReaction", "postReaction"} =>
          \A i \in DOMAIN call.reaction :
             LET r == call.reaction[i] IN
             /\ Count(ReactionList(r.contributionId), r) >= 1
             /\ Count(ReactionList(r.contributionId), r) = Count(pushed, r)
    /\ \A r \in Range(pushed) :
          Count(ReactionList(r.contributionId), r) = Count(pushed, r)
    /\ relationships = related
    /\ \A id \in SavedIds : Get(contributions, id) = saved[id]

C20_GetSessionPure ==
    [][call'.op = "getSession" =>
          /\ <<sessions', contributions', reactions', relationships'>>
                = <<sessions, contributions, reactions, relationships>>
          /\ ret' = getSession(sessions, call'.sessionId)
          /\ (call.op = "getSession" /\ call.sessionId = call'.sessionId) =>
                ret' = ret]_vars

\* getSession has been called for the id of a session that createSession
\* returned, after another session was timed out
C20_Witness ==
    /\ call.op = "getSession"
    /\ \E s \in issued : s.id = call.sessionId
    /\ timedOut # {}
    /\ ret = getSession(sessions, call.sessionId)

-----------------------------------------------------------------------------
(* Session identifiers *)

\* C21 as stated: no two sessions that createSession returned have the same
\* id.
C21_UniqueIds == \A s1, s2 \in issued : s1.id = s2.id => s1 = s2

\* C21: the id of a session is the hexadecimal text of the five bytes the
\* random source delivered to that call and of nothing else: calls that draw
\* different bytes return different ids, calls that draw the same bytes
\* return the same id, and createSession compares the id with no id issued
\* before or present in the store.
C21_IdFromRandom ==
    /\ \A r1, r2 \in RandomValues(SessionIDSize \div 2) :
          (getRandomString(SessionIDSize, r1) = getRandomString(SessionIDSize, r2))
             <=> (r1 = r2)
    /\ \A s \in issued \cup timedOut :
          \E random \in RandomValues(SessionIDSize \div 2) :
             /\ s.id = getRandomString(SessionIDSize, random)
             /\ s = createSession(s.auth, s.userAgent, random)
    /\ call.op = "createSession" =>
          \E random \in RandomValues(SessionIDSize \div 2) :
             ret = createSession(call.auth, call.userAgent, random)

\* two sessions created for different users carry the same id, and a third
\* one another id
C21_Witness ==
    /\ call.op = "createSession"
    /\ \E s \in issued : s # ret /\ s.id = ret.id
    /\ \E s \in issued : s.id # ret.id

-----------------------------------------------------------------------------
(* Rendering *)

\* the positions of text str at which a line begins
LineStarts(str) ==
    {1} \cup {i + 1 : i \in {j \in 1..Len(str) : SubSeq(str, j, j) = "\n"}}

\* text str reads prefix from position p on
ReadsAt(str, p, prefix) ==
    /\ p + Len(prefix) - 1 <= Len(str)
    /\ SubSeq(str, p, p + Len(prefix) - 1) = prefix

Min(S) == CHOOSE m \in S : \A n \in S : m <= n

RECURSIVE Listing(_, _)
RECURSIVE ListingOfAll(_, _)
\* how the 'Contribution ID' and 'Content' lines of the nodes of tree t
\* begin, in depth-first pre-order, two spaces per level
Listing(t, level) ==
    <<Repeat("  ", level) \o "Contribution ID: " \o t.id,
      Repeat("  ", level) \o "Content: " \o t.content>>
       \o ListingOfAll(t.subContributions, level + 1)
ListingOfAll(ts, level) ==
    IF ts = <<>> THEN <<>>
    ELSE Listing(Head(ts), level) \o ListingOfAll(Tail(ts), level)

RECURSIVE BeginInOrder(_, _, _, _)
\* each of the beginnings k.. begins a line of its own in str at or after
\* position from, in this order
BeginInOrder(begins, k, str, from) ==
    IF k > Len(begins) THEN TRUE
    ELSE LET at == {p \in LineStarts(str) :
                       p >= from /\ ReadsAt(str, p, begins[k])}
         IN at # {} /\ BeginInOrder(begins, k + 1, str, Min(at) + 1)

\* C22: renderThread of a tree getThread returned lists the nodes in
\* depth-first pre-order, and the 'Contribution ID' line and the 'Content'
\* line of every node each begin on a line of their own, after exactly two
\* spaces per level of depth.
C22_RenderListing ==
    call.op = "renderThread" =>
        BeginInOrder(Listing(call.contribution, 0), 1, ret, 1)

\* an odd integer of either sign
IsOdd(s) == (IF s >= 0 THEN s ELSE 0 - s) % 2 = 1

\* str is n lowercase hexadecimal characters
IsHex(str, n) ==
    /\ Len(str) = n
    /\ \A i \in 1..Len(str) : SubSeq(str, i, i) \in Range(HexDigits)

\* C23: getRandomString(s) raises the invalid-input error for every odd
\* size s and returns no identifier; for every even size s >= 0 it returns
\* exactly s lowercase hexadecimal characters; the id of every session
\* createSession returns is 10 hexadecimal characters, and createSession
\* never raises that error.
C23_RandomStringBySize ==
    /\ call.op = "getRandomString" =>
          IF IsOdd(call.s) THEN ret = Throw("InvalidData")
          ELSE call.s >= 0 => (ret.type = "string" /\ IsHex(ret.value, call.s))
    /\ call.op = "createSession" => (~IsThrow(ret) /\ IsHex(ret.id, SessionIDSize))

-----------------------------------------------------------------------------
(* Order of siblings *)

\* a step that saves a contribution, by either entry point
SavesContribution ==
    \/ call'.op = "saveContribution"
    \/ call'.op = "postContribution" /\ ~IsRelationship(call'.input)
SavedContribution ==
    IF call'.op = "saveContribution" THEN call'.contribution ELSE call'.input

\* the ids of the sub-contributions of a tree node, in their order
SubIds(t) == [i \in DOMAIN t.subContributions |-> t.subContributions[i].id]

\* C24 as stated: sub-contributions appear in the order in which their ids
\* were first saved, so a contribution saved under a new id is the last
\* sub-contribution of its parent.
C24_FirstSavedOrder ==
    [][(SavesContribution /\ SavedContribution.id \notin SavedIds
          /\ "parentId" \in DOMAIN SavedContribution) =>
          LET t == getThread(contributions', reactions',
                             SavedContribution.parentId, Undefined)
          IN IsTree(t) => SubIds(t)[Len(SubIds(t))] = SavedContribution.id]_vars

\* the own keys of a store in the order Object.entries lists them
KeySeq(o) == [i \in DOMAIN o |-> o[i].key]

\* seq without its element k
RECURSIVE Without(_, _)
Without(seq, k) ==
    IF seq = <<>> THEN <<>>
    ELSE (IF Head(seq) = k THEN <<>> ELSE <<Head(seq)>>) \o Without(Tail(seq), k)

\* array-index ids come first, in ascending numeric order
IndexKeysFirst(ks) ==
    \A i, j \in DOMAIN ks :
        (i < j /\ IsArrayIndex(ks[j])) =>
            (IsArrayIndex(ks[i]) /\ IndexValue(ks[i]) < IndexValue(ks[j]))

RECURSIVE SubsInKeyOrder(_, _)
\* the sub-contributions of every node of t follow the key order ks
SubsInKeyOrder(t, ks) ==
    /\ \A i, j \in DOMAIN t.subContributions :
          i < j => \E p, q \in DOMAIN ks :
                      /\ p < q
                      /\ ks[p] = t.subContributions[i].id
                      /\ ks[q] = t.subContributions[j].id
    /\ \A i \in DOMAIN t.subContributions :
          SubsInKeyOrder(t.subContributions[i], ks)

\* C24: in every tree getThread returns the sub-contributions of a node
\* appear in the own-property order of the store: ids that are array
\* indices first, in ascending numeric order, then every other id in the
\* order of first save; re-saving an id moves nothing, whatever its
\* timestamp.
C24_KeyOrder ==
    /\ []((call.op = "getThread" /\ IsTree(ret) /\ "id" \in DOMAIN ret) =>
             SubsInKeyOrder(ret, KeySeq(contributions)))
    /\ [](IndexKeysFirst(KeySeq(contributions)))
    /\ [][SavesContribution =>
             IF HasOwn(contributions, SavedContribution.id)
             THEN KeySeq(contributions') = KeySeq(contributions)
             ELSE /\ Without(KeySeq(contributions'), SavedContribution.id)
                        = KeySeq(contributions)
                  /\ ~IsArrayIndex(SavedContribution.id) =>
                        KeySeq(contributions')[Len(contributions')]
                           = SavedContribution.id]_vars

\* "1" has been saved first after "constructor", both replies to "a" with
\* different timestamps, and the thread of "a" lists "1" before it
C24_Witness ==
    /\ call.op = "postContribution"
    /\ call.previous = Undefined
    /\ call.input.id = "1"
    /\ HasOwn(contributions, "constructor")
    /\ HasOwn(contributions, "a")
    /\ "parentId" \in DOMAIN Get(contributions, "constructor")
    /\ "parentId" \in DOMAIN call.input
    /\ call.input.created_at # Get(contributions, "constructor").created_at
    /\ IsTree(getThread(contributions, reactions, "a", Undefined))
    /\ SubIds(getThread(contributions, reactions, "a", Undefined))
          = <<"1", "constructor">>

-----------------------------------------------------------------------------
(* Reads *)

\* the operations that read a contribution or a thread
ReadOps ==
    {"getContribution", "getThread",
     "interaction.getContribution", "interaction.getThread"}

\* C25: getContribution and getThread, with any id and options, leave the
\* stored contributions, reaction lists, relationships and sessions as they
\* were, and a read repeated with no write in between returns the same.
C25_ReadsReadOnly ==
    [][call'.op \in ReadOps =>
          /\ <<contributions', reactions', relationships', sessions'>>
                = <<contributions, reactions, relationships, sessions>>
          /\ (call.op = call'.op /\ call.id = call'.id
                /\ call.options = call'.options) => ret' = ret]_vars

\* a thread with a reply and reactions has been read while relationships
\* were stored, and the stores still hold what was written
C25_Witness ==
    /\ call.op = "interaction.getThread"
    /\ IsTree(ret)
    /\ Len(ret.subContributions) = 1
    /\ IncludeReactions(call.options)
    /\ ret.reactions # Undefined
    /\ relationships # <<>>
    /\ relationships = related
    /\ \A id \in SavedIds : Get(contributions, id) = saved[id]
    /\ \A id \in SavedIds : Get(reactions, id) = ExpectedReactions(id)

-----------------------------------------------------------------------------
(* Subtrees and re-parenting *)

\* the saved contributions that reach k through parentId links
Ancestors(m, k) == {a \in DOMAIN m : k \in Descendants(m, a)}

\* the other saved contributions with the parentId of k
Siblings(m, k) ==
    {s \in DOMAIN m \ {k} :
        /\ "parentId" \in DOMAIN m[s]
        /\ "parentId" \in DOMAIN m[k]
        /\ m[s].parentId = m[k].parentId}

\* C26: getThread of a stored contribution that has a parentId returns the
\* subtree rooted at it: the contribution and exactly its descendants, none
\* of its ancestors and none of its siblings.
C26_SubtreeOfReply ==
    (call.op = "getThread" /\ call.id \in SavedIds
       /\ "parentId" \in DOMAIN saved[call.id]) =>
        /\ IsTree(ret)
        /\ ret.id = call.id
        /\ Range(NodeIds(ret)) = {call.id} \cup Descendants(saved, call.id)
        /\ Range(NodeIds(ret)) \cap Ancestors(saved, call.id) = {}
        /\ Range(NodeIds(ret)) \cap Siblings(saved, call.id) = {}

RECURSIVE DirectlyUnder(_, _, _)
\* in tree t some node with id p has a sub-contribution with id k
DirectlyUnder(t, p, k) ==
    \/ /\ "id" \in DOMAIN t
       /\ t.id = p
       /\ \E i \in DOMAIN t.subContributions : t.subContributions[i].id = k
    \/ \E i \in DOMAIN t.subContributions : DirectlyUnder(t.subContributions[i], p, k)

\* a step that re-saves a stored contribution with another parentId
Reparents ==
    /\ SavesContribution
    /\ SavedContribution.id \in SavedIds
    /\ "parentId" \in DOMAIN saved[SavedContribution.id]
    /\ "parentId" \in DOMAIN SavedContribution
    /\ SavedContribution.parentId # saved[SavedContribution.id].parentId

\* C27: once a stored contribution c is re-saved with parentId p2 instead
\* of p1, getThread of p2 holds c with its whole subtree directly under p2,
\* and no tree getThread returns holds c under p1 or holds c twice.
C27_Reparented ==
    [][Reparents =>
          LET c == SavedContribution
              p1 == saved[c.id].parentId
              under == getThread(contributions', reactions', c.parentId, Undefined)
          IN /\ HasOwn(contributions', c.parentId) =>
                   /\ IsTree(under)
                   /\ \E i \in DOMAIN under.subContributions :
                         /\ under.subContributions[i].id = c.id
                         /\ Range(NodeIds(under.subContributions[i]))
                               = {c.id} \cup Descendants(saved', c.id)
             /\ \A root \in ContributionIDs :
                   LET t == getThread(contributions', reactions', root, Undefined)
                   IN IsTree(t) =>
                         /\ Count(NodeIds(t), c.id) <= 1
                         /\ ~DirectlyUnder(t, p1, c.id)]_vars

-----------------------------------------------------------------------------
(* Relationships and the contribution store *)

\* C28: after postContribution of a relationship whose contribution id was
\* never saved as a contribution, getContribution and getThread of that id
\* return absent, and getRelationshipsByContributionID of it returns the
\* relationship.
C28_RelationshipOnly ==
    (call.op = "postContribution" /\ IsRelationship(call.input)
       /\ call.input.contribution.id \notin SavedIds) =>
        LET id == call.input.contribution.id IN
        /\ getContribution(contributions, reactions, id, Undefined) = Null
        /\ getThread(contributions, reactions, id, Undefined) = Null
        /\ Count(getRelationshipsByContributionID(relationships, id).items,
                 call.input) >= 1

\* C29: re-saving a contribution whose id has reactions leaves the reaction
\* list as it was, and getContribution with includeReactions returns the
\* fields saved last together with every reaction saved for the id, before
\* or after the overwrite.
C29_ReactionsSurviveOverwrite ==
    /\ []((call.op = "interaction.getContribution"
             /\ IncludeReactions(call.options)
             /\ call.id \in SavedIds
             /\ PushedFor(pushed, call.id) # <<>>) =>
                ret = [reactions |-> Array(PushedFor(pushed, call.id))]
                         @@ saved[call.id])
    /\ [][SavesContribution => reactions' = reactions]_vars

\* a contribution that has two reactions has been overwritten with other
\* fields, and a read gives the new fields with the two reactions
C29_Witness ==
    /\ call.op = "postContribution"
    /\ ~IsRelationship(call.input)
    /\ call.previous # Undefined
    /\ call.previous # call.input
    /\ Len(PushedFor(pushed, call.input.id)) = 2
    /\ getContribution(contributions, reactions, call.input.id,
                       [includeReactions |-> TRUE])
          = [reactions |-> Array(PushedFor(pushed, call.input.id))] @@ call.input

\* C30: saving a contribution under the id that a saved relationship
\* embeds changes nothing of what getRelationshipsByTargetID and
\* getRelationshipsByContributionID return: they return the relationships
\* with the contribution values they were saved with, which may differ from
\* what getContribution returns for the id.
C30_RelationshipKeepsValue ==
    /\ [](call.op \in {"getRelationshipsByTargetID",
                        "getRelationshipsByContributionID"} =>
             /\ \A i \in DOMAIN ret.items : ret.items[i] \in Range(related)
             /\ Len(ret.items) =
                   Cardinality({i \in DOMAIN related :
                       IF call.op = "getRelationshipsByTargetID"
                       THEN related[i].target.targetID = call.id
                       ELSE related[i].contribution.id = call.id}))
    /\ [][SavesContribution =>
             /\ \A t \in TargetIDs :
                   getRelationshipsByTargetID(relationships', t)
                      = getRelationshipsByTargetID(relationships, t)
             /\ \A id \in ContributionIDs :
                   getRelationshipsByContributionID(relationships', id)
                      = getRelationshipsByContributionID(relationships, id)]_vars

\* a relationship is returned with the contribution it was saved with
\* while the contribution store holds another value under that id
C30_Witness ==
    /\ call.op = "getRelationshipsByContributionID"
    /\ ret.items # <<>>
    /\ ret.items[1] = related[1]
    /\ HasOwn(contributions, call.id)
    /\ Get(contributions, call.id) # ret.items[1].contribution
    /\ Get(contributions, call.id).id = ret.items[1].contribution.id

====
